---- MODULE Spec2Model ----
(***************************************************************************)
(* devtidy (main.go): the concurrent directory walker (boundedWalk), the   *)
(* two scans built on it (scanForCleanableItems, scanGitignoreItems) and   *)
(* the bubbletea update loop that toggles selections and deletes the       *)
(* selected items one message at a time.                                   *)
(*                                                                         *)
(* A Go string is a sequence of one-character strings, a path is a         *)
(* sequence of names relative to the scanned root (the root is << >>).     *)
(***************************************************************************)
EXTENDS Integers, Sequences, FiniteSets, Bags, TLC

(***************************************************************************)
(* Bounds of the model.                                                    *)
(***************************************************************************)
\* boundedWalk is run with 1 .. MaxWorkers workers (runtime.NumCPU()).
MaxWorkers == 2
\* at most MaxRuns cleanup runs are started in one behaviour.
MaxRuns == 2
\* a run is started with at most MaxStale progress messages of earlier runs
\* still in flight.
MaxStale == 0
\* getDirectorySize is called SizeCalls times in a row on the same tree.
SizeCalls == 2

(***************************************************************************)
(* strings                                                                 *)
(***************************************************************************)
HasPrefix(s, p) == Len(s) >= Len(p) /\ SubSeq(s, 1, Len(p)) = p

HasSuffix(s, p) == Len(s) >= Len(p) /\ SubSeq(s, Len(s) - Len(p) + 1, Len(s)) = p

\* a faulty variant: only the whole string is looked at
SameString(s, p) == s = p

Contains(s, p) == \E i \in 0..(Len(s) - Len(p)) : SubSeq(s, i + 1, i + Len(p)) = p

TrimSuffix(s, p) == IF HasSuffix(s, p) THEN SubSeq(s, 1, Len(s) - Len(p)) ELSE s

IsSpace(c) == c \in {" ", "\t", "\n", "\r"}

RECURSIVE TrimLeft(_)
TrimLeft(s) == IF s # << >> /\ IsSpace(Head(s)) THEN TrimLeft(Tail(s)) ELSE s

RECURSIVE TrimRight(_)
TrimRight(s) ==
    IF s # << >> /\ IsSpace(s[Len(s)]) THEN TrimRight(SubSeq(s, 1, Len(s) - 1)) ELSE s

TrimSpace(s) == TrimRight(TrimLeft(s))

\* filepath.Match for patterns made of literals, '?' and '*': '*' matches any
\* run of characters other than the separator, '?' one such character.
RECURSIVE Match(_, _)
Match(pat, name) ==
    IF pat = << >> THEN name = << >>
    ELSE IF Head(pat) = "*"
         THEN \/ Match(Tail(pat), name)
              \/ name # << >> /\ Head(name) # "/" /\ Match(pat, Tail(name))
         ELSE /\ name # << >>
              /\ \/ Head(pat) = "?" /\ Head(name) # "/"
                 \/ Head(pat) \notin {"?", "*"} /\ Head(pat) = Head(name)
              /\ Match(Tail(pat), Tail(name))

\* filepath.Join of the names of a path, relative to the root.
RECURSIVE Join(_)
Join(path) ==
    IF path = << >> THEN <<".">>
    ELSE IF Len(path) = 1 THEN path[1]
    ELSE path[1] \o <<"/">> \o Join(Tail(path))

\* a faulty variant: the path is not cut at its last separator
WholePath(s) == s

\* filepath.Base of a non-empty string that does not end in a separator.
RECURSIVE Base(_)
Base(s) == IF Contains(s, <<"/">>) THEN Base(Tail(s)) ELSE s

IsPrefixPath(p, q) == Len(p) <= Len(q) /\ SubSeq(q, 1, Len(p)) = p

(***************************************************************************)
(* The directory tree under the scanned root: what os.ReadDir returns for  *)
(* each directory (entries sorted by name) and the size of each file.      *)
(***************************************************************************)
DirEntry(n) == [name |-> n, isDir |-> TRUE, size |-> 0]

FileEntry(n, sz) == [name |-> n, isDir |-> FALSE, size |-> sz]

N_git == <<".", "g", "i", "t">>
N_build == <<"b", "u", "i", "l", "d">>
N_dist == <<"d", "i", "s", "t">>
N_src == <<"s", "r", "c">>
N_cache == <<".", "c", "a", "c", "h", "e">>
N_target == <<"t", "a", "r", "g", "e", "t">>
N_errorlog == <<"e", "r", "r", "o", "r", ".", "l", "o", "g">>
N_maino == <<"m", "a", "i", "n", ".", "o">>
N_appjs == <<"a", "p", "p", ".", "j", "s">>
N_liba == <<"l", "i", "b", ".", "a">>

ReadDir(dir) ==
    CASE dir = << >> ->
           <<DirEntry(N_git), DirEntry(N_build), FileEntry(N_errorlog, 7), DirEntry(N_src)>>
      [] dir = <<N_git>> -> <<DirEntry(N_build)>>
      [] dir = <<N_build>> -> <<DirEntry(N_dist), FileEntry(N_maino, 100)>>
      [] dir = <<N_build, N_dist>> -> <<FileEntry(N_appjs, 50)>>
      [] dir = <<N_src>> -> <<DirEntry(N_cache), DirEntry(N_target)>>
      [] dir = <<N_src, N_cache>> -> <<FileEntry(N_liba, 30)>>
      [] dir = <<N_src, N_target>> -> <<FileEntry(N_maino, 100)>>
      [] OTHER -> << >>

\* every directory of the tree, the root included
AllDirs ==
    {<< >>, <<N_git>>, <<N_git, N_build>>, <<N_build>>, <<N_build, N_dist>>,
     <<N_src>>, <<N_src, N_cache>>, <<N_src, N_target>>}

\* directories whose listing may fail with a permission error
MayBeUnreadable == {<<N_build>>, <<N_src>>}

(***************************************************************************)
(* scanForCleanableItems: the builtin pattern table (a Go map: iteration   *)
(* order is unspecified).                                                  *)
(***************************************************************************)
patterns ==
    {[pat |-> <<"n", "o", "d", "e", "_", "m", "o", "d", "u", "l", "e", "s">>, desc |-> "Node.js dependencies"],
     [pat |-> <<"t", "a", "r", "g", "e", "t">>, desc |-> "Rust build artifacts"],
     [pat |-> <<"b", "u", "i", "l", "d">>, desc |-> "Build artifacts"],
     [pat |-> <<"d", "i", "s", "t">>, desc |-> "Distribution files"],
     [pat |-> <<"_", "_", "p", "y", "c", "a", "c", "h", "e", "_", "_">>, desc |-> "Python cache"],
     [pat |-> <<".", "p", "y", "t", "e", "s", "t", "_", "c", "a", "c", "h", "e">>, desc |-> "Pytest cache"],
     [pat |-> <<"v", "e", "n", "v">>, desc |-> "Python virtual environment"],
     [pat |-> <<"e", "n", "v">>, desc |-> "Python virtual environment"],
     [pat |-> <<".", "v", "e", "n", "v">>, desc |-> "Python virtual environment"],
     [pat |-> <<"v", "e", "n", "d", "o", "r">>, desc |-> "Vendor dependencies"],
     [pat |-> <<"d", "e", "p", "s">>, desc |-> "Elixir dependencies"],
     [pat |-> <<"_", "b", "u", "i", "l", "d">>, desc |-> "Elixir build artifacts"],
     [pat |-> <<".", "g", "r", "a", "d", "l", "e">>, desc |-> "Gradle cache"],
     [pat |-> <<"c", "m", "a", "k", "e", "-", "b", "u", "i", "l", "d", "-", "d", "e", "b", "u", "g">>, desc |-> "CMake build artifacts"],
     [pat |-> <<"c", "m", "a", "k", "e", "-", "b", "u", "i", "l", "d", "-", "r", "e", "l", "e", "a", "s", "e">>, desc |-> "CMake build artifacts"],
     [pat |-> <<"D", "e", "r", "i", "v", "e", "d", "D", "a", "t", "a">>, desc |-> "Xcode derived data"],
     [pat |-> <<"*", ".", "l", "o", "g">>, desc |-> "Log files"],
     [pat |-> <<"*", ".", "t", "m", "p">>, desc |-> "Temporary files"]}

(***************************************************************************)
(* State.                                                                  *)
(***************************************************************************)
VARIABLES
    \* the file system
    unreadable,     \* directories whose listing fails (permission denied)
    disk,           \* directories that still exist
    \* boundedWalk
    maxWorkers,     \* number of workers
    work,           \* the work list (a stack), guarded by mu
    out,            \* the buffered output channel
    closed,         \* close(out) has run
    wpc,            \* each worker's position
    wdir,           \* each worker's dir
    wents,          \* each worker's entries still to visit
    wpath,          \* each worker's path being sent and pushed
    emits,          \* observation: how often each directory was sent on out
    lists,          \* observation: how often os.ReadDir was called on each directory
    \* the scan (scanForCleanableItems / scanGitignoreItems)
    useGitignore,   \* the --gitignore flag
    gitignore,      \* the lines of <root>/.gitignore
    tasks,          \* builtin mode: classification goroutines started and not finished
    sizeCache,      \* builtin mode: paths whose size is cached
    scanItems,      \* the items collected so far
    scanDone,       \* the scan has returned scanCompleteMsg(scanItems)
    \* Model (the bubbletea model) and the program around it
    state,          \* m.state
    items,          \* m.items
    cleaning,       \* m.cleaning
    cleanedSize,    \* m.cleanedSize
    inflight,       \* commands running and messages not yet received by Update
    quitted,        \* p.Run() has returned: the program has ended
    \* observations: the last handler, and the cleanup run in flight or just
    \* completed (cleared when the user next changes the selection)
    lastOp,         \* the handler that ran last
    runs,           \* cleanup runs started so far
    startItems,     \* m.items when the run was started
    startCleaned,   \* m.cleanedSize when the run was started
    startDisk,      \* disk when the run was started
    processed,      \* the removals attempted by the run, in order, with their outcome
    received,       \* the messages of the run that Update received, in order
    unstatable,     \* the files on which d.Info() fails
    mPattern,       \* matchesGitignorePattern called on its own: pattern
    mPath,          \* ... path
    mResult,        \* ... << >> before the call, <<its result>> after
    szPath,         \* getDirectorySize called on its own: path
    szLimit,        \* ... the capacity of limit, runtime.NumCPU()
    szTodo,         \* ... the files filepath.WalkDir has still to report
    szLive,         \* ... the files whose goroutine holds a slot of limit
    szExit,         \* ... the files whose goroutine gave its slot back and has not
                    \*     called wg.Done() yet
    szSize,         \* ... size
    szReturned,     \* ... the values the calls so far returned
    cPath,          \* the classification goroutine run on its own: j.root
    cResult         \* ... << >> before it runs, then <<Type of the item>> or <<"">>

walkVars ==
    <<maxWorkers, work, out, closed, wpc, wdir, wents, wpath, emits, lists,
      useGitignore, gitignore, tasks, sizeCache, scanItems, scanDone>>

modelVars == <<state, items, cleaning, cleanedSize, inflight, quitted>>

runVars == <<lastOp, runs, startItems, startCleaned, startDisk, processed, received>>

matchVars == <<mPattern, mPath, mResult>>

sizeVars == <<szPath, szLimit, szTodo, szLive, szExit, szSize, szReturned>>

classVars == <<cPath, cResult>>

fnVars == <<unstatable, matchVars, sizeVars, classVars>>

vars == <<unreadable, disk, walkVars, modelVars, runVars, fnVars>>

(***************************************************************************)
(* getDirectorySize: the sum of the sizes of the regular files under path. *)
(* filepath.WalkDir reports a directory it cannot list to the callback     *)
(* with err set, and the callback returns nil: its files count for zero.   *)
(***************************************************************************)
RECURSIVE SizeOfEntries(_, _)
SizeOfEntries(dir, ents) ==
    IF ents = << >> THEN 0
    ELSE LET e == Head(ents)
             sub == Append(dir, e.name)
             here == IF ~e.isDir THEN (IF sub \in unstatable THEN 0 ELSE e.size)
                     ELSE IF sub \in unreadable THEN 0
                     ELSE SizeOfEntries(sub, ReadDir(sub))
         IN  here + SizeOfEntries(dir, Tail(ents))

getDirectorySize(path) ==
    IF path \in unreadable THEN 0 ELSE SizeOfEntries(path, ReadDir(path))

(***************************************************************************)
(* matchesGitignorePattern                                                 *)
(***************************************************************************)
matchesGitignorePattern(pattern, path) ==
    IF HasSuffix(pattern, <<"/">>)
    THEN LET p == TrimSuffix(pattern, <<"/">>)
         IN  HasPrefix(path, p \o <<"/">>) \/ path = p
    ELSE IF Contains(pattern, <<"*">>)
    THEN Match(pattern, Base(path)) \/ Match(pattern, path)
    ELSE path = pattern \/ Contains(path, pattern) \/ HasSuffix(path, <<"/">> \o pattern)


(***************************************************************************)
(* CleanableItem                                                           *)
(***************************************************************************)
CleanableItem(path, type, size, info) ==
    [Path |-> path, Type |-> type, Size |-> size, Info |-> info, Selected |-> FALSE]

RECURSIVE SumSizes(_)
SumSizes(its) == IF its = << >> THEN 0 ELSE Head(its).Size + SumSizes(Tail(its))

\* a faulty variant: every item counts as selected
IsAnyItem(it) == TRUE

IsSelected(it) == it.Selected

IsUnselected(it) == ~it.Selected

Paths(its) == {its[i].Path : i \in 1..Len(its)}

(***************************************************************************)
(* boundedWalk                                                             *)
(***************************************************************************)
Workers == 1..maxWorkers

\* a faulty variant: the buffer holds one entry more
OutCapacityPlusOne == maxWorkers * 2 + 1

\* out := make(chan scanJob, maxWorkers*2)
OutCapacity == maxWorkers * 2

\* a faulty variant: the work list is seeded with the root once more
InitialWorkTwice == <<<< >>, << >>>>

\* work := []string{root}
InitialWork == <<<< >>>>

\* a faulty variant: every dot-prefixed directory is passed over
SkippedDotPrefixed(name) == HasPrefix(name, <<".">>) /\ name # <<".">>

\* the entries the worker's loop passes over: files, and directories named .git
Skipped(name) == HasPrefix(name, <<".">>) /\ name # <<".">> /\ name = N_git

\* for _, e := range entries: the entries left once those the loop passes over
\* (files, .git) are dropped; the first of them is the next one sent
RECURSIVE Range(_)
Range(ents) ==
    IF ents = << >> THEN << >>
    ELSE IF ~Head(ents).isDir \/ Skipped(Head(ents).name) THEN Range(Tail(ents))
    ELSE ents

\* a faulty variant: the range loop starts at the second entry
ListingFromSecond(dir) ==
    IF dir \in unreadable \/ ReadDir(dir) = << >> THEN << >> ELSE Range(Tail(ReadDir(dir)))

\* entries, err := os.ReadDir(dir); if err != nil { continue }
Listing(dir) == IF dir \in unreadable THEN << >> ELSE Range(ReadDir(dir))

\* mu.Lock(); if len(work) == 0 { mu.Unlock(); return }; dir := work[len(work)-1];
\* work = work[:len(work)-1]; mu.Unlock()
WorkerTake(w) ==
    /\ wpc[w] = "take"
    /\ IF Len(work) = 0
       THEN /\ wpc' = [wpc EXCEPT ![w] = "done"]
            /\ UNCHANGED <<work, wdir>>
       ELSE /\ wdir' = [wdir EXCEPT ![w] = work[Len(work)]]
            /\ work' = SubSeq(work, 1, Len(work) - 1)
            /\ wpc' = [wpc EXCEPT ![w] = "read"]
    /\ UNCHANGED <<fnVars, unreadable, disk, maxWorkers, out, closed, wents, wpath, emits, lists,
                   useGitignore, gitignore, tasks, sizeCache, scanItems, scanDone,
                   modelVars, runVars>>

\* entries, err := os.ReadDir(dir), then the range loop up to its first send, or
\* to its end (dir, entries and path are then dead: they are assigned again
\* before they are read)
WorkerReadDir(w) ==
    /\ wpc[w] = "read"
    /\ lists' = [lists EXCEPT ![wdir[w]] = @ + 1]
    /\ LET ents == Listing(wdir[w])
       IN  IF ents = << >>
           THEN /\ wpc' = [wpc EXCEPT ![w] = "take"]
                /\ wdir' = [wdir EXCEPT ![w] = << >>]
                /\ UNCHANGED <<wents, wpath>>
           ELSE /\ wpath' = [wpath EXCEPT ![w] = Append(wdir[w], Head(ents).name)]
                /\ wents' = [wents EXCEPT ![w] = Tail(ents)]
                /\ wpc' = [wpc EXCEPT ![w] = "send"]
                /\ UNCHANGED wdir
    /\ UNCHANGED <<fnVars, unreadable, disk, maxWorkers, work, out, closed, emits,
                   useGitignore, gitignore, tasks, sizeCache, scanItems, scanDone,
                   modelVars, runVars>>

\* out <- scanJob{root: path, info: info}: blocks while the buffer is full
WorkerSend(w) ==
    /\ wpc[w] = "send"
    /\ Len(out) < OutCapacity
    /\ out' = Append(out, wpath[w])
    /\ emits' = [emits EXCEPT ![wpath[w]] = @ + 1]
    /\ wpc' = [wpc EXCEPT ![w] = "push"]
    /\ UNCHANGED <<fnVars, unreadable, disk, maxWorkers, work, closed, wdir, wents, wpath, lists,
                   useGitignore, gitignore, tasks, sizeCache, scanItems, scanDone,
                   modelVars, runVars>>

\* mu.Lock(); work = append(work, path); mu.Unlock(); then the range loop up to
\* its next send, or to its end
WorkerPush(w) ==
    /\ wpc[w] = "push"
    /\ work' = Append(work, wpath[w])
    /\ LET ents == Range(wents[w])
       IN  IF ents = << >>
           THEN /\ wpc' = [wpc EXCEPT ![w] = "take"]
                /\ wdir' = [wdir EXCEPT ![w] = << >>]
                /\ wents' = [wents EXCEPT ![w] = << >>]
                /\ wpath' = [wpath EXCEPT ![w] = << >>]
           ELSE /\ wpath' = [wpath EXCEPT ![w] = Append(wdir[w], Head(ents).name)]
                /\ wents' = [wents EXCEPT ![w] = Tail(ents)]
                /\ wpc' = [wpc EXCEPT ![w] = "send"]
                /\ UNCHANGED wdir
    /\ UNCHANGED <<fnVars, unreadable, disk, maxWorkers, out, closed, emits, lists,
                   useGitignore, gitignore, tasks, sizeCache, scanItems, scanDone,
                   modelVars, runVars>>

\* a faulty variant: the wait group counts one worker only
SomeWorkerReturned == \E w \in Workers : wpc[w] = "done"

\* wg.Add(maxWorkers) ... wg.Wait(): every worker has returned
AllWorkersReturned == \A w \in Workers : wpc[w] = "done"

\* wg.Wait() returns once every worker has returned; then the deferred close(out)
WalkClose ==
    /\ ~closed
    /\ AllWorkersReturned
    /\ closed' = TRUE
    /\ UNCHANGED <<fnVars, unreadable, disk, maxWorkers, work, out, wpc, wdir, wents, wpath, emits,
                   lists, useGitignore, gitignore, tasks, sizeCache, scanItems, scanDone,
                   modelVars, runVars>>

(***************************************************************************)
(* scanForCleanableItems, builtin mode                                     *)
(***************************************************************************)
\* a faulty variant: a wildcard entry is compared like the others
MatchingPatternsExact(name) == {p \in patterns : name = p.pat}

\* the entries of the pattern table that match a base name
MatchingPatterns(name) ==
    {p \in patterns : IF Contains(p.pat, <<"*">>) THEN Match(p.pat, name) ELSE name = p.pat}

\* for j := range boundedWalk(...) { wg.Add(1); go func() {...}() }
ScanReceive ==
    /\ ~useGitignore
    /\ out # << >>
    /\ tasks' = tasks (+) SetToBag({Head(out)})
    /\ out' = Tail(out)
    /\ UNCHANGED <<fnVars, unreadable, disk, maxWorkers, work, closed, wpc, wdir, wents, wpath, emits,
                   lists, useGitignore, gitignore, sizeCache, scanItems, scanDone,
                   modelVars, runVars>>

\* one classification goroutine, from start to wg.Done(): the first pattern the
\* map iteration reaches that matches decides the item
ClassifyTask(root) ==
    /\ BagIn(root, tasks)
    /\ tasks' = tasks (-) SetToBag({root})
    /\ LET name == Base(Join(root))
       IN  IF MatchingPatterns(name) = {}
           THEN UNCHANGED <<sizeCache, scanItems>>
           ELSE \E p \in MatchingPatterns(name) :
                  /\ sizeCache' = IF root \in DOMAIN sizeCache THEN sizeCache
                                  ELSE sizeCache @@ (root :> getDirectorySize(root))
                  /\ scanItems' = Append(scanItems,
                                         CleanableItem(root, p.desc, sizeCache'[root], p.desc))
    /\ UNCHANGED <<fnVars, unreadable, disk, maxWorkers, work, out, closed, wpc, wdir, wents, wpath,
                   emits, lists, useGitignore, gitignore, scanDone, modelVars, runVars>>

\* the range loop ends when out is closed and drained; wg.Wait(); return scanCompleteMsg(items)
ScanFinish ==
    /\ ~useGitignore
    /\ ~scanDone
    /\ closed /\ out = << >> /\ tasks = EmptyBag
    /\ scanDone' = TRUE
    /\ UNCHANGED <<fnVars, unreadable, disk, maxWorkers, work, out, closed, wpc, wdir, wents, wpath,
                   emits, lists, useGitignore, gitignore, tasks, sizeCache, scanItems,
                   modelVars, runVars>>

(***************************************************************************)
(* scanGitignoreItems                                                      *)
(***************************************************************************)
\* a faulty variant: an empty line is kept as a pattern
KeptLineOrEmpty(line) == ~HasPrefix(line, <<"#">>) /\ ~HasPrefix(line, <<"!">>)

\* the lines kept as patterns: trimmed, not empty, not a comment, not a negation
KeptLine(line) ==
    line # << >> /\ ~HasPrefix(line, <<"#">>) /\ ~HasPrefix(line, <<"!">>)

RECURSIVE GitPatterns(_)
GitPatterns(lines) ==
    IF lines = << >> THEN << >>
    ELSE LET line == TrimSpace(Head(lines))
         IN  (IF KeptLine(line) THEN <<line>> ELSE << >>) \o GitPatterns(Tail(lines))

\* the first pattern, in file order, that matches rel (<< >> when none does)
RECURSIVE FirstMatch(_, _)
FirstMatch(pats, rel) ==
    IF pats = << >> THEN << >>
    ELSE IF matchesGitignorePattern(Head(pats), rel) THEN <<Head(pats)>>
    ELSE FirstMatch(Tail(pats), rel)

\* the de-dup: an item is appended unless one with its path is there already
AppendUnlessFound(its, it) ==
    IF \E i \in 1..Len(its) : its[i].Path = it.Path THEN its ELSE Append(its, it)

\* one iteration of for job := range boundedWalk(...)
GitReceive ==
    /\ useGitignore
    /\ out # << >>
    /\ out' = Tail(out)
    /\ LET path == Head(out)
           m == FirstMatch(GitPatterns(gitignore), Join(path))
       IN  scanItems' =
             IF m = << >> THEN scanItems
             ELSE AppendUnlessFound(scanItems,
                    CleanableItem(path, <<"Gitignore pattern: ">> \o m[1],
                                  getDirectorySize(path), "Matches .gitignore pattern"))
    /\ UNCHANGED <<fnVars, unreadable, disk, maxWorkers, work, closed, wpc, wdir, wents, wpath, emits,
                   lists, useGitignore, gitignore, tasks, sizeCache, scanDone,
                   modelVars, runVars>>

\* the range loop ends when out is closed and drained; return items
GitFinish ==
    /\ useGitignore
    /\ ~scanDone
    /\ closed /\ out = << >>
    /\ scanDone' = TRUE
    /\ UNCHANGED <<fnVars, unreadable, disk, maxWorkers, work, out, closed, wpc, wdir, wents, wpath,
                   emits, lists, useGitignore, gitignore, tasks, sizeCache, scanItems,
                   modelVars, runVars>>

\* the .gitignore files the scan is run on
GitignoreFiles ==
    {<<<<"b", "u", "i", "l", "d", "/">>, <<"b", "u", "i", "l", "d">>>>,
     <<<<"#", " ", "o", "u", "t">>, << >>, <<"!", "s", "r", "c">>,
       <<" ", "d", "i", "s", "t", " ">>, <<"*", ".", "l", "o", "g">>,
       <<"s", "r", "c", "/">>>>}

(***************************************************************************)
(* The inventory a builtin-mode scan of the tree returns: one item for     *)
(* each directory the walker sends whose base name matches the table, in   *)
(* the order in which the classification goroutines append them.           *)
(***************************************************************************)
\* the directories the walker sends: no name on the path is passed over, and
\* every directory above them, the root included, can be listed
Walked ==
    {d \in AllDirs \ {<< >>} :
        /\ \A k \in 1..Len(d) : ~Skipped(d[k])
        /\ \A k \in 0..(Len(d) - 1) : SubSeq(d, 1, k) \notin unreadable}

BuiltinItems ==
    {CleanableItem(d, p.desc, getDirectorySize(d), p.desc) :
        <<d, p>> \in {x \in Walked \X patterns : x[2] \in MatchingPatterns(Base(Join(x[1])))}}

Orderings(S) ==
    {s \in [1..Cardinality(S) -> S] : \A i, j \in 1..Cardinality(S) : s[i] = s[j] => i = j}

(***************************************************************************)
(* Messages and commands of the update loop.                               *)
(***************************************************************************)
\* tea.Quit: the command Update returns for the quit key, and the message it
\* produces, which ends the program when the event loop receives it
QuitMsg == [type |-> "tea.Quit"]

cleanCompleteMsg == [type |-> "cleanCompleteMsg"]

\* run is an observation (the run that produced the message), not a field
cleanProgressMsg(item, done, total) ==
    [type |-> "cleanProgressMsg", item |-> item, done |-> done, total |-> total,
     run |-> runs]

cleanSingleItem(its, index, total) ==
    [type |-> "cleanSingleItem", items |-> its, index |-> index, total |-> total]

Put(bag, msg) == bag (+) SetToBag({msg})

Take(bag, msg) == bag (-) SetToBag({msg})

Pending(type) == {msg \in BagToSet(inflight) : msg.type = type}

(***************************************************************************)
(* Model: selection                                                        *)
(***************************************************************************)
\* a faulty variant: every item is counted
countItems(its) == Len(its)

RECURSIVE countSelectedItems(_)
countSelectedItems(its) ==
    IF its = << >> THEN 0
    ELSE (IF Head(its).Selected THEN 1 ELSE 0) + countSelectedItems(Tail(its))

RECURSIVE calculateTotalSelectedSize(_)
calculateTotalSelectedSize(its) ==
    IF its = << >> THEN 0
    ELSE (IF Head(its).Selected THEN Head(its).Size ELSE 0)
            + calculateTotalSelectedSize(Tail(its))

\* the index of the first item with the path (0 when there is none)
IndexOfPath(its, path) ==
    IF \E i \in 1..Len(its) : its[i].Path = path
    THEN CHOOSE i \in 1..Len(its) :
            /\ its[i].Path = path
            /\ \A k \in 1..(i - 1) : its[k].Path # path
    ELSE 0

\* a faulty variant: the flag of every item is inverted
toggleAll(its, selectedItem) ==
    [i \in 1..Len(its) |-> [its[i] EXCEPT !.Selected = ~its[i].Selected]]

\* a faulty variant: the item is selected, whatever it was
selectItem(its, selectedItem) ==
    LET i == IndexOfPath(its, selectedItem.Path)
    IN  IF i = 0 THEN its ELSE [its EXCEPT ![i].Selected = TRUE]

\* toggleSelection, with the list's selected item given
toggleSelection(its, selectedItem) ==
    LET i == IndexOfPath(its, selectedItem.Path)
    IN  IF i = 0 THEN its ELSE [its EXCEPT ![i].Selected = ~its[i].Selected]

\* a faulty variant: the guard of startCleaning is missing
NeverNothingSelected(its) == FALSE

\* if m.countSelectedItems() == 0 { return m, nil }
NothingSelected(its) == countSelectedItems(its) = 0

(***************************************************************************)
(* Model: cleanup                                                          *)
(***************************************************************************)
\* a faulty variant: the head of the list is removed, whatever its path
RemoveHead(its, path) == IF its = << >> THEN its ELSE Tail(its)

\* m.items = append(m.items[:i], m.items[i+1:]...) for the first i with the path
RemoveItem(its, path) ==
    LET i == IndexOfPath(its, path)
    IN  IF i = 0 THEN its ELSE SubSeq(its, 1, i - 1) \o SubSeq(its, i + 1, Len(its))

\* a faulty variant: the item is removed whether or not os.RemoveAll failed
ItemsAfterRemoveAllIgnoringErr(its, item, ok) == RemoveItem(its, item.Path)

\* if err := os.RemoveAll(item.Path); err == nil { ... remove the item ... }
ItemsAfterRemoveAll(its, item, ok) == IF ok THEN RemoveItem(its, item.Path) ELSE its

\* a faulty variant: the size is added whether or not os.RemoveAll failed
CleanedAfterRemoveAllIgnoringErr(cleaned, item, ok) == cleaned + item.Size

\* if err := os.RemoveAll(item.Path); err == nil { m.cleanedSize += item.Size }
CleanedAfterRemoveAll(cleaned, item, ok) == IF ok THEN cleaned + item.Size ELSE cleaned

\* a faulty variant: no command follows the last item
NextCmdWithoutComplete(msg) ==
    IF msg.index + 1 < Len(msg.items)
    THEN {cleanSingleItem(msg.items, msg.index + 1, msg.total)}
    ELSE {}

\* nextCmd: the tick that brings the next cleanSingleItem, or cleanCompleteMsg
NextCmd(msg) ==
    IF msg.index + 1 < Len(msg.items)
    THEN {cleanSingleItem(msg.items, msg.index + 1, msg.total)}
    ELSE {cleanCompleteMsg}

\* progressCmd
ProgressCmd(msg) ==
    cleanProgressMsg(msg.items[msg.index + 1].Path, msg.index + 1, msg.total)

\* what os.RemoveAll(path) can leave of the directories: nothing of path when it
\* returns nil (also when path was gone already); when it fails, path itself and
\* any part of what is below it that it could not remove
Below(path) == {d \in disk : IsPrefixPath(path, d) /\ d # path}

RemoveAllOutcomes(path) ==
    IF path \notin disk THEN {[ok |-> TRUE, disk |-> disk]}
    ELSE {[ok |-> TRUE, disk |-> {d \in disk : ~IsPrefixPath(path, d)}]}
         \cup {[ok |-> FALSE, disk |-> disk \ gone] :
                 gone \in {g \in SUBSET Below(path) :
                             \A d \in g : \A e \in disk : IsPrefixPath(d, e) => e \in g}}

(***************************************************************************)
(* Initial states.                                                         *)
(***************************************************************************)
\* initialModel, and the scan command Model.Init returns
\* a faulty variant: the model starts with an item of an earlier scan
InitialItemsStale ==
    <<[Path |-> <<N_build>>, Type |-> "Build artifacts", Size |-> 0, Info |-> "", Selected |-> TRUE]>>

\* items: []CleanableItem{}
InitialItems == << >>

ModelInit ==
    /\ state = "stateScanning"
    /\ items = InitialItems
    /\ cleaning = FALSE
    /\ cleanedSize = 0
    /\ inflight = SetToBag({[type |-> "scanForCleanableItems"]})
    /\ quitted = FALSE

\* no call of matchesGitignorePattern or getDirectorySize on its own
MatchIdle ==
    /\ mPattern = << >>
    /\ mPath = << >>
    /\ mResult = << >>

SizeIdle ==
    /\ szPath = << >>
    /\ szLimit = 0
    /\ szTodo = << >>
    /\ szLive = {}
    /\ szExit = {}
    /\ szSize = 0
    /\ szReturned = << >>

ClassIdle ==
    /\ cPath = << >>
    /\ cResult = << >>

FnIdle == unstatable = {} /\ MatchIdle /\ SizeIdle /\ ClassIdle

RunInit ==
    /\ lastOp = "initialModel"
    /\ runs = 0
    /\ startItems = << >>
    /\ startCleaned = 0
    /\ startDisk = AllDirs
    /\ processed = << >>
    /\ received = << >>

\* the walk and the scan at the call of scanForCleanableItems
WalkInit ==
    /\ unreadable \in SUBSET MayBeUnreadable
    /\ disk = AllDirs
    /\ maxWorkers \in 1..MaxWorkers
    /\ work = InitialWork
    /\ out = << >>
    /\ closed = FALSE
    /\ wpc = [w \in Workers |-> "take"]
    /\ wdir = [w \in Workers |-> << >>]
    /\ wents = [w \in Workers |-> << >>]
    /\ wpath = [w \in Workers |-> << >>]
    /\ emits = [d \in AllDirs |-> 0]
    /\ lists = [d \in AllDirs |-> 0]
    /\ useGitignore \in BOOLEAN
    /\ gitignore \in (IF useGitignore THEN GitignoreFiles ELSE {<< >>})
    /\ tasks = EmptyBag
    /\ sizeCache = << >>
    /\ scanItems = << >>
    /\ scanDone = FALSE
    /\ ModelInit
    /\ RunInit
    /\ FnIdle

WalkNext ==
    \/ \E w \in Workers : WorkerTake(w)
    \/ \E w \in Workers : WorkerReadDir(w)
    \/ \E w \in Workers : WorkerSend(w)
    \/ \E w \in Workers : WorkerPush(w)
    \/ WalkClose
    \/ ScanReceive
    \/ \E root \in AllDirs : ClassifyTask(root)
    \/ ScanFinish
    \/ GitReceive
    \/ GitFinish

\* the scan: the walker's workers, the consumer's loop and its goroutines
WalkSpec == WalkInit /\ [][WalkNext]_vars

\* the Go scheduler runs a goroutine that can take a step
FairWalkSpec == WalkSpec /\ WF_vars(WalkNext)

(***************************************************************************)
(* Model.Update, one action for each message it handles, and the commands  *)
(* that run beside it. Nothing runs once tea.Quit has ended the program.   *)
(***************************************************************************)
\* the scan command returns, and Update receives its scanCompleteMsg
UpdateScanComplete ==
    /\ ~quitted
    /\ state = "stateScanning"
    /\ Pending("scanForCleanableItems") # {}
    /\ \E inventory \in Orderings(BuiltinItems) :
         items' = inventory
    /\ state' = "stateSelecting"
    /\ inflight' = Take(inflight, [type |-> "scanForCleanableItems"])
    /\ lastOp' = "scanCompleteMsg"
    /\ UNCHANGED <<fnVars, unreadable, disk, walkVars, cleaning, cleanedSize, quitted,
                   runs, startItems, startCleaned, startDisk, processed, received>>

\* tea.KeyMsg, keys.quit: in every state, return m, tea.Quit (the last key the
\* user presses)
KeyQuit ==
    /\ ~quitted
    /\ Pending("tea.Quit") = {}
    /\ inflight' = Put(inflight, QuitMsg)
    /\ lastOp' = "quit"
    /\ UNCHANGED <<fnVars, unreadable, disk, walkVars, state, items, cleaning, cleanedSize, quitted,
                   runs, startItems, startCleaned, startDisk, processed, received>>

\* the event loop receives the message of tea.Quit and returns
UpdateQuit ==
    /\ ~quitted
    /\ Pending("tea.Quit") # {}
    /\ inflight' = Take(inflight, QuitMsg)
    /\ quitted' = TRUE
    /\ lastOp' = "tea.Quit"
    /\ UNCHANGED <<fnVars, unreadable, disk, walkVars, state, items, cleaning, cleanedSize,
                   runs, startItems, startCleaned, startDisk, processed, received>>

\* tea.KeyMsg, keys.toggle, with the list's cursor on item cursor (0: the list is empty)
KeyToggle(cursor) ==
    /\ ~quitted
    /\ Pending("tea.Quit") = {}
    /\ IF Len(items) = 0 THEN cursor = 0 ELSE cursor \in 1..Len(items)
    /\ IF state = "stateSelecting" /\ ~cleaning /\ cursor # 0
       THEN /\ items' = toggleSelection(items, items[cursor])
            /\ startItems' = << >>
            /\ startCleaned' = 0
            /\ startDisk' = AllDirs
            /\ processed' = << >>
            /\ received' = << >>
       ELSE UNCHANGED <<items, startItems, startCleaned, startDisk, processed, received>>
    /\ lastOp' = "toggle"
    /\ UNCHANGED <<fnVars, unreadable, disk, walkVars, state, cleaning, cleanedSize, inflight, quitted,
                   runs>>

\* the cleanProgressMsg in flight
ProgressInFlight ==
    BagCardinality([msg \in Pending("cleanProgressMsg") |-> CopiesIn(msg, inflight)])

\* a faulty variant: the clean key is not looked at for a run in progress
CanStartWhileCleaning(st, cl) == st = "stateSelecting"

\* case stateSelecting: ... case key.Matches(msg, keys.clean): if !m.cleaning
CanStart(st, cl) == st = "stateSelecting" /\ ~cl

\* tea.KeyMsg, keys.clean: startCleaning unless scanning or cleaning
KeyClean ==
    /\ ~quitted
    /\ Pending("tea.Quit") = {}
    /\ lastOp' = "clean"
    /\ IF CanStart(state, cleaning) /\ ~NothingSelected(items)
       THEN /\ runs < MaxRuns
            /\ ProgressInFlight <= MaxStale
            /\ cleaning' = TRUE
            /\ inflight' = Put(inflight, [type |-> "startCleaningProcess", items |-> items])
            /\ runs' = runs + 1
            /\ startItems' = items
            /\ startCleaned' = cleanedSize
            /\ startDisk' = disk
            /\ processed' = << >>
            /\ received' = << >>
       ELSE UNCHANGED <<cleaning, inflight, runs, startItems, startCleaned, startDisk,
                        processed, received>>
    /\ UNCHANGED <<fnVars, unreadable, disk, walkVars, state, items, cleanedSize, quitted>>

\* the command startCleaningProcess(items) returns its message
RunStartCleaningProcess ==
    /\ ~quitted
    /\ \E cmd \in Pending("startCleaningProcess") :
         LET selectedItems == SelectSeq(cmd.items, IsSelected)
         IN  inflight' = Put(Take(inflight, cmd),
                             IF Len(selectedItems) = 0 THEN cleanCompleteMsg
                             ELSE cleanSingleItem(selectedItems, 0, Len(selectedItems)))
    /\ lastOp' = "startCleaningProcess"
    /\ UNCHANGED <<fnVars, unreadable, disk, walkVars, state, items, cleaning, cleanedSize, quitted,
                   runs, startItems, startCleaned, startDisk, processed, received>>

\* case cleanSingleItem
UpdateCleanSingleItem ==
    /\ ~quitted
    /\ lastOp' = "cleanSingleItem"
    /\ \E msg \in Pending("cleanSingleItem") :
         IF msg.index >= Len(msg.items)
         THEN /\ inflight' = Put(Take(inflight, msg), cleanCompleteMsg)
              /\ UNCHANGED <<disk, items, cleanedSize, processed>>
         ELSE LET item == msg.items[msg.index + 1]
              IN  \E r \in RemoveAllOutcomes(item.Path) :
                    /\ disk' = r.disk
                    /\ cleanedSize' = CleanedAfterRemoveAll(cleanedSize, item, r.ok)
                    /\ items' = ItemsAfterRemoveAll(items, item, r.ok)
                    /\ inflight' = Take(inflight, msg) (+) SetToBag({ProgressCmd(msg)})
                                     (+) SetToBag(NextCmd(msg))
                    /\ processed' = Append(processed, [path |-> item.Path, ok |-> r.ok])
    /\ UNCHANGED <<fnVars, unreadable, walkVars, state, cleaning, quitted,
                   runs, startItems, startCleaned, startDisk, received>>

\* case cleanProgressMsg: m.progress.SetPercent(done / total)
UpdateCleanProgress ==
    /\ ~quitted
    /\ lastOp' = "cleanProgressMsg"
    /\ \E msg \in Pending("cleanProgressMsg") :
         /\ inflight' = Take(inflight, msg)
         /\ received' = IF msg.run = runs /\ cleaning THEN Append(received, msg) ELSE received
    /\ UNCHANGED <<fnVars, unreadable, disk, walkVars, state, items, cleaning, cleanedSize, quitted,
                   runs, startItems, startCleaned, startDisk, processed>>

\* a faulty variant: a completed run leaves the model in stateComplete
stateAfterCompleteIsComplete == "stateComplete"

\* case cleanCompleteMsg: m.state = stateSelecting
stateAfterComplete == "stateSelecting"

\* case cleanCompleteMsg
UpdateCleanComplete ==
    /\ ~quitted
    /\ lastOp' = "cleanCompleteMsg"
    /\ Pending("cleanCompleteMsg") # {}
    /\ inflight' = Take(inflight, cleanCompleteMsg)
    /\ state' = stateAfterComplete
    /\ cleaning' = FALSE
    /\ received' = Append(received, cleanCompleteMsg)
    /\ UNCHANGED <<fnVars, unreadable, disk, walkVars, items, cleanedSize, quitted,
                   runs, startItems, startCleaned, startDisk, processed>>

\* the commands and messages bubbletea delivers without the user
Deliver ==
    \/ UpdateScanComplete
    \/ RunStartCleaningProcess
    \/ UpdateCleanSingleItem
    \/ UpdateCleanProgress
    \/ UpdateCleanComplete
    \/ UpdateQuit

(***************************************************************************)
(* The program from tea.NewProgram(initialModel(...)) on; the scan is the  *)
(* command in flight, and WalkSpec is what it does.                        *)
(***************************************************************************)
WalkIdle ==
    /\ maxWorkers = 0
    /\ work = << >>
    /\ out = << >>
    /\ closed = FALSE
    /\ wpc = << >>
    /\ wdir = << >>
    /\ wents = << >>
    /\ wpath = << >>
    /\ emits = << >>
    /\ lists = << >>
    /\ useGitignore = FALSE
    /\ gitignore = << >>
    /\ tasks = EmptyBag
    /\ sizeCache = << >>
    /\ scanItems = << >>
    /\ scanDone = FALSE

Init ==
    /\ unreadable \in SUBSET MayBeUnreadable
    /\ disk = AllDirs
    /\ WalkIdle
    /\ ModelInit
    /\ RunInit
    /\ FnIdle

Next ==
    \/ UpdateScanComplete
    \/ KeyQuit
    \/ \E cursor \in 0..Cardinality(AllDirs) : KeyToggle(cursor)
    \/ KeyClean
    \/ RunStartCleaningProcess
    \/ UpdateCleanSingleItem
    \/ UpdateCleanProgress
    \/ UpdateCleanComplete
    \/ UpdateQuit

Spec == Init /\ [][Next]_vars

\* bubbletea runs every command it is given and hands every message to Update
FairSpec == Spec /\ WF_vars(Deliver)

(***************************************************************************)
(* matchesGitignorePattern, called on a line of a .gitignore file (as      *)
(* scanGitignoreItems keeps it) and a relative path.                       *)
(***************************************************************************)
\* build/ src/ dist/ b*/ *.log *.tmp b*d src/* * build env dist
MatchLines ==
    {<<"b", "u", "i", "l", "d", "/">>, <<"s", "r", "c", "/">>,
     <<"d", "i", "s", "t", "/">>, <<"b", "*", "/">>,
     <<"*", ".", "l", "o", "g">>, <<"*", ".", "t", "m", "p">>,
     <<"b", "*", "d">>, <<"s", "r", "c", "/", "*">>, <<"*">>,
     <<"b", "u", "i", "l", "d">>, <<"e", "n", "v">>, <<"d", "i", "s", "t">>}

\* build build/output src/builder error.log error.log.txt src/error.log src
\* builder src/build dist a.tmp home/environment-data env
MatchPaths ==
    {<<"b", "u", "i", "l", "d">>,
     <<"b", "u", "i", "l", "d", "/", "o", "u", "t", "p", "u", "t">>,
     <<"s", "r", "c", "/", "b", "u", "i", "l", "d", "e", "r">>,
     <<"e", "r", "r", "o", "r", ".", "l", "o", "g">>,
     <<"e", "r", "r", "o", "r", ".", "l", "o", "g", ".", "t", "x", "t">>,
     <<"s", "r", "c", "/", "e", "r", "r", "o", "r", ".", "l", "o", "g">>,
     <<"s", "r", "c">>, <<"b", "u", "i", "l", "d", "e", "r">>,
     <<"s", "r", "c", "/", "b", "u", "i", "l", "d">>, <<"d", "i", "s", "t">>,
     <<"a", ".", "t", "m", "p">>,
     <<"h", "o", "m", "e", "/", "e", "n", "v", "i", "r", "o", "n", "m", "e", "n", "t", "-", "d", "a", "t", "a">>, <<"e", "n", "v">>}

MatchInit ==
    /\ mPattern \in MatchLines
    /\ mPath \in MatchPaths
    /\ mResult = << >>
    /\ unreadable = {}
    /\ unstatable = {}
    /\ disk = AllDirs
    /\ WalkIdle
    /\ ModelInit
    /\ RunInit
    /\ SizeIdle
    /\ ClassIdle

MatchCall ==
    /\ mResult = << >>
    /\ mResult' = <<matchesGitignorePattern(mPattern, mPath)>>
    /\ UNCHANGED <<unreadable, disk, walkVars, modelVars, runVars, unstatable, mPattern, mPath,
                   sizeVars, classVars>>

MatchNext == MatchCall

MatchSpec == MatchInit /\ [][MatchNext]_vars

(***************************************************************************)
(* getDirectorySize, step by step: filepath.WalkDir calls the callback on  *)
(* one file after the other; for each the callback takes a slot of limit   *)
(* (it waits while all are taken) and starts a goroutine, which adds the   *)
(* size d.Info() reports to size and gives the slot back; wg.Wait() lets   *)
(* the function return once all of them have.                              *)
(***************************************************************************)
\* the files filepath.WalkDir reports, in its order, with the size of each
RECURSIVE FilesOfEntries(_, _)
FilesOfEntries(dir, ents) ==
    IF ents = << >> THEN << >>
    ELSE LET e == Head(ents)
             sub == Append(dir, e.name)
             here == IF ~e.isDir THEN <<[file |-> sub, size |-> e.size]>>
                     ELSE IF sub \in unreadable THEN << >>
                     ELSE FilesOfEntries(sub, ReadDir(sub))
         IN  here \o FilesOfEntries(dir, Tail(ents))

WalkDirFiles(path) ==
    IF path \in unreadable THEN << >> ELSE FilesOfEntries(path, ReadDir(path))

\* a faulty variant: the size is stored, not added
StoreInt64(size, delta) == delta

\* atomic.AddInt64(&size, fi.Size())
AddInt64(size, delta) == size + delta

\* the paths getDirectorySize is called on
SizePaths == {<< >>, <<N_build>>, <<N_build, N_dist>>, <<N_src>>}

\* files on which d.Info() may fail
MayBeUnstatable == {<<N_build, N_maino>>, <<N_src, N_cache, N_liba>>}

SizeInit ==
    /\ unreadable \in SUBSET MayBeUnreadable
    /\ unstatable \in SUBSET MayBeUnstatable
    /\ szPath \in SizePaths
    /\ szLimit \in 1..MaxWorkers
    /\ szTodo = WalkDirFiles(szPath)
    /\ szLive = {}
    /\ szExit = {}
    /\ szSize = 0
    /\ szReturned = << >>
    /\ disk = AllDirs
    /\ WalkIdle
    /\ ModelInit
    /\ RunInit
    /\ MatchIdle
    /\ ClassIdle

\* a faulty variant: the callback does not wait for a slot
SlotAlwaysFree == TRUE

\* limit <- struct{}{} does not block: fewer than cap(limit) slots are taken
SlotFree == Cardinality(szLive) < szLimit

\* the callback on the next file: limit <- struct{}{}; wg.Add(1); go func() {...}()
SizeVisit ==
    /\ Len(szReturned) < SizeCalls
    /\ szTodo # << >>
    /\ SlotFree
    /\ szLive' = szLive \cup {Head(szTodo)}
    /\ szTodo' = Tail(szTodo)
    /\ UNCHANGED <<unreadable, disk, walkVars, modelVars, runVars, unstatable, matchVars,
                   classVars, szPath, szLimit, szExit, szSize, szReturned>>

\* the goroutine of one file: d.Info(), atomic.AddInt64, and the deferred <-limit
SizeTask(f) ==
    /\ f \in szLive
    /\ szSize' = IF f.file \in unstatable THEN szSize ELSE AddInt64(szSize, f.size)
    /\ szLive' = szLive \ {f}
    /\ szExit' = szExit \cup {f}
    /\ UNCHANGED <<unreadable, disk, walkVars, modelVars, runVars, unstatable, matchVars,
                   classVars, szPath, szLimit, szTodo, szReturned>>

\* the deferred wg.Done() of the goroutine, which runs after its <-limit
SizeDone(f) ==
    /\ f \in szExit
    /\ szExit' = szExit \ {f}
    /\ UNCHANGED <<unreadable, disk, walkVars, modelVars, runVars, unstatable, matchVars,
                   classVars, szPath, szLimit, szTodo, szLive, szSize, szReturned>>

\* wg.Wait(); return size -- and the next call begins
SizeReturn ==
    /\ Len(szReturned) < SizeCalls
    /\ szTodo = << >>
    /\ szLive = {}
    /\ szExit = {}
    /\ szReturned' = Append(szReturned, szSize)
    /\ szSize' = 0
    /\ szTodo' = IF Len(szReturned') < SizeCalls THEN WalkDirFiles(szPath) ELSE << >>
    /\ UNCHANGED <<unreadable, disk, walkVars, modelVars, runVars, unstatable, matchVars,
                   classVars, szPath, szLimit, szLive, szExit>>

SizeNext ==
    \/ SizeVisit
    \/ \E f \in szLive : SizeTask(f)
    \/ \E f \in szExit : SizeDone(f)
    \/ SizeReturn

SizeSpec == SizeInit /\ [][SizeNext]_vars

(***************************************************************************)
(* The classification goroutine of scanForCleanableItems, run on one       *)
(* directory the walker sent.                                              *)
(***************************************************************************)
\* base names: those of the tree, and builder error.log error.log.txt a.tmp
\* .venv env log venv vendor deps
ClassNames ==
    {N_build, N_dist, N_target, N_src,
     <<"b", "u", "i", "l", "d", "e", "r">>,
     <<"e", "r", "r", "o", "r", ".", "l", "o", "g">>,
     <<"e", "r", "r", "o", "r", ".", "l", "o", "g", ".", "t", "x", "t">>,
     <<"a", ".", "t", "m", "p">>,
     <<".", "v", "e", "n", "v">>,
     <<"e", "n", "v">>,
     <<"l", "o", "g">>,
     <<"v", "e", "n", "v">>,
     <<"v", "e", "n", "d", "o", "r">>,
     <<"d", "e", "p", "s">>}

\* the directory is under the root, or under build, src or a.tmp
ClassPaths ==
    {<<n>> : n \in ClassNames}
        \cup {<<q, n>> : q \in {N_build, N_src, <<"a", ".", "t", "m", "p">>}, n \in ClassNames}

ClassInit ==
    /\ cPath \in ClassPaths
    /\ cResult = << >>
    /\ unreadable = {}
    /\ unstatable = {}
    /\ disk = AllDirs
    /\ WalkIdle
    /\ ModelInit
    /\ RunInit
    /\ MatchIdle
    /\ SizeIdle

\* name := filepath.Base(j.root); for pat, desc := range patterns { ... }: the
\* first entry the iteration reaches that matches gives the item its Type
ClassifyCall ==
    /\ cResult = << >>
    /\ LET name == Base(Join(cPath))
       IN  IF MatchingPatterns(name) = {} THEN cResult' = <<"">>
           ELSE \E p \in MatchingPatterns(name) : cResult' = <<p.desc>>
    /\ UNCHANGED <<unreadable, disk, walkVars, modelVars, runVars, unstatable, matchVars,
                   sizeVars, cPath>>

ClassNext == ClassifyCall

ClassSpec == ClassInit /\ [][ClassNext]_vars

(***************************************************************************)
(* Properties of the cleanup run (Spec, FairSpec).                         *)
(***************************************************************************)
\* the run's completion message was received, and the user has not acted since
RunCompleted == received # << >> /\ received[Len(received)] = cleanCompleteMsg

AllSucceeded == \A k \in 1..Len(processed) : processed[k].ok

SelectedAtStart == SelectSeq(startItems, IsSelected)

\* C1: an Item of the inventory whose path a cleanup run removed from disk was
\* selected when that run started; the path of an Item unselected at run start
\* is never deleted by the run.
C1_OnlySelectedRemoved ==
    \A i \in 1..Len(startItems) :
        (startItems[i].Path \in startDisk /\ startItems[i].Path \notin disk)
            => startItems[i].Selected

\* C5: when a run in which every deletion succeeded completes, the cleaned size
\* has grown by the sum of the sizes of the Items selected at start, and the
\* inventory is the Items unselected at start, in their original order.
C5_DeletionEffect ==
    (RunCompleted /\ AllSucceeded) =>
        /\ cleanedSize = startCleaned + SumSizes(SelectedAtStart)
        /\ items = SelectSeq(startItems, IsUnselected)

\* a run over a selected Item of 100 bytes, with an unselected Item left behind
C5_Witness ==
    /\ RunCompleted /\ AllSucceeded
    /\ Len(SelectedAtStart) = 1
    /\ cleanedSize = startCleaned + 100
    /\ \E i \in 1..Len(items) : items[i].Size = 50

\* C6: within a run over n selected items Update receives the progress events
\* in the order completedCount = 1, 2, ..., n, each with totalCount = n, and the
\* completion only after the event with completedCount = n.
C6_ProgressInOrder ==
    \A k \in 1..Len(received) :
        IF received[k].type = "cleanProgressMsg"
        THEN received[k].done = k /\ received[k].total = Len(SelectedAtStart)
        ELSE k = Len(SelectedAtStart) + 1

\* the completion messages of the run: received, or still to be received
Completions ==
    Len(SelectSeq(received, LAMBDA m : m = cleanCompleteMsg))
        + CopiesIn(cleanCompleteMsg, inflight)

\* every item of the snapshot was given to os.RemoveAll, in order
ProcessedAll ==
    /\ Len(processed) = Len(SelectedAtStart)
    /\ \A k \in 1..Len(processed) : processed[k].path = SelectedAtStart[k].Path

\* C7: unless the user quits, a run that was started processes every item of
\* its snapshot, then sets cleaning to false on its completion message, which
\* is produced once only, whether the deletions succeeded or failed.
C7_RunCompletes ==
    /\ cleaning ~> (quitted \/ (~cleaning /\ ProcessedAll /\ Completions = 1))
    /\ [](Completions <= 1)

\* a completed run with a deletion that failed and one that succeeded
C7_Witness ==
    /\ RunCompleted /\ ~cleaning /\ ProcessedAll
    /\ \E k \in 1..Len(processed) : ~processed[k].ok
    /\ \E k \in 1..Len(processed) : processed[k].ok

\* C8: when os.RemoveAll fails on an item, the inventory (the Item with it,
\* still selected) and the cleaned size stay as they were, and the run goes on
\* with the next item of the snapshot, or completes after the last.
C8_FailureKeepsItem ==
    [][(/\ Len(processed') = Len(processed) + 1
        /\ ~processed'[Len(processed')].ok)
       => /\ items' = items
          /\ cleanedSize' = cleanedSize
          /\ \E i \in 1..Len(items') :
                /\ items'[i].Path = processed'[Len(processed')].path
                /\ items'[i].Selected
          /\ IF Len(processed') < Len(SelectedAtStart)
             THEN \E msg \in BagToSet(inflight') :
                     /\ msg.type = "cleanSingleItem"
                     /\ msg.index = Len(processed')
                     /\ msg.items = SelectedAtStart
             ELSE BagIn(cleanCompleteMsg, inflight')]_vars

\* a deletion has just failed and the run has items left
C8_Witness ==
    /\ lastOp = "cleanSingleItem"
    /\ processed # << >>
    /\ ~processed[Len(processed)].ok
    /\ Len(processed) < Len(SelectedAtStart)

\* C9: the progress event of an item whose deletion failed carries the error.
C9_ProgressCarriesError ==
    \A msg \in Pending("cleanProgressMsg") :
        (msg.run = runs /\ msg.done <= Len(processed) /\ ~processed[msg.done].ok)
            => "err" \in DOMAIN msg

\* C10: a start-cleaning command with no Item selected changes nothing: cleaning
\* stays false, the inventory, the cleaned size and the disk are unchanged, and
\* no command or message is produced.
C10_EmptySelectionGuard ==
    [][(lastOp' = "clean" /\ countSelectedItems(items) = 0)
       => UNCHANGED <<state, items, cleaning, cleanedSize, inflight, disk, runs,
                      processed, received>>]_vars

\* the start command was just given with a non-empty inventory and no selection
C10_Witness ==
    /\ lastOp = "clean"
    /\ state = "stateSelecting"
    /\ items # << >>
    /\ countSelectedItems(items) = 0
    /\ ~cleaning

\* the items selected when the start command was accepted, in inventory order
SnapshotAtStart == SelectSeq(startItems, LAMBDA it : it.Selected)

\* what a run has removed and will remove follows the snapshot, in order
RunFollowsSnapshot ==
    /\ Len(processed) <= Len(SnapshotAtStart)
    /\ \A k \in 1..Len(processed) : processed[k].path = SnapshotAtStart[k].Path
    /\ \A msg \in Pending("cleanSingleItem") :
          /\ msg.items = SnapshotAtStart
          /\ msg.index = Len(processed)
    /\ RunCompleted => Len(processed) = Len(SnapshotAtStart)

\* C11: the items a run gives to os.RemoveAll are the Items selected when the
\* start command was accepted, one at a time in the inventory order of that
\* moment; a toggle command issued during the run changes neither the
\* inventory nor the items and order of the run.
C11_SnapshotOrder ==
    /\ []RunFollowsSnapshot
    /\ [][(cleaning /\ lastOp' = "toggle")
            => UNCHANGED <<items, inflight, startItems, processed>>]_vars

\* the user pressed toggle between two items of a run over two items
C11_Witness ==
    /\ cleaning
    /\ lastOp = "toggle"
    /\ Len(SnapshotAtStart) = 2
    /\ Len(processed) = 1
    /\ Pending("cleanSingleItem") # {}

\* C12: toggling the same Item twice in succession gives back the inventory as
\* it was, the Item's selected flag included.
C12_ToggleTwice ==
    \A i \in 1..Len(items) :
        LET once == toggleSelection(items, items[i])
        IN  /\ once[i].Selected = ~items[i].Selected
            /\ toggleSelection(once, once[i]) = items

\* toggles have left an inventory with a selected and an unselected Item
C12_Witness ==
    /\ lastOp = "toggle"
    /\ \E i \in 1..Len(items) : items[i].Selected
    /\ \E i \in 1..Len(items) : ~items[i].Selected

\* C13: in every state the total selected size is the sum of the sizes of the
\* Items of the inventory with selected = true, and the selected count is the
\* number of those Items.
C13_SelectedTotals ==
    LET sel == {i \in 1..Len(items) : items[i].Selected}
    IN  /\ countSelectedItems(items) = Cardinality(sel)
        /\ calculateTotalSelectedSize(items)
              = SumSizes(SelectSeq(items, LAMBDA it : it.Selected))

\* between two items of a run: one Item removed, one selected and one
\* unselected Item left
C13_Witness ==
    /\ cleaning
    /\ Len(items) < Len(startItems)
    /\ Pending("cleanSingleItem") # {}
    /\ countSelectedItems(items) = 1
    /\ Len(items) = 2

(***************************************************************************)
(* Properties of matchesGitignorePattern (MatchSpec).                      *)
(***************************************************************************)
\* a line with no trailing '/' and no '*'
PlainLine(line) ==
    /\ line[Len(line)] # "/"
    /\ \A i \in 1..Len(line) : line[i] # "*"

\* the line without its last character is the path, or the path up to a "/"
AnchorMatches(line, path) ==
    LET n == Len(line) - 1
    IN  /\ Len(path) >= n
        /\ \A i \in 1..n : path[i] = line[i]
        /\ (Len(path) = n \/ path[n + 1] = "/")

\* a glob with one '*': what is before it begins the name, what is after it
\* ends the name, and what the '*' stands for holds no separator
GlobMatches(line, name) ==
    LET k == CHOOSE i \in 1..Len(line) : line[i] = "*"
        pre == SubSeq(line, 1, k - 1)
        suf == SubSeq(line, k + 1, Len(line))
    IN  /\ Len(name) >= Len(pre) + Len(suf)
        /\ SubSeq(name, 1, Len(pre)) = pre
        /\ SubSeq(name, Len(name) - Len(suf) + 1, Len(name)) = suf
        /\ \A i \in (Len(pre) + 1)..(Len(name) - Len(suf)) : name[i] # "/"

\* the path after its last separator
BaseName(path) ==
    LET slashes == {i \in 1..Len(path) : path[i] = "/"}
        last == IF slashes = {} THEN 0 ELSE CHOOSE i \in slashes : \A j \in slashes : j <= i
    IN  SubSeq(path, last + 1, Len(path))

\* the cases the contract names: build/ on build, build/output and
\* src/builder; *.log on error.log and error.log.txt
GitignoreExamples ==
    LET build == <<"b", "u", "i", "l", "d">>
        log == <<"*", ".", "l", "o", "g">>
        errorlog == <<"e", "r", "r", "o", "r", ".", "l", "o", "g">>
    IN  /\ matchesGitignorePattern(build \o <<"/">>, build)
        /\ matchesGitignorePattern(build \o <<"/">>, build \o <<"/", "o", "u", "t">>)
        /\ ~matchesGitignorePattern(build \o <<"/">>, <<"s", "r", "c", "/">> \o build \o <<"e", "r">>)
        /\ matchesGitignorePattern(log, errorlog)
        /\ ~matchesGitignorePattern(log, errorlog \o <<".", "t", "x", "t">>)

\* C14: a line ending in '/' matches a relative path iff the path is the line
\* without the slash or begins with the line; a line with a '*' and no
\* trailing slash matches iff the glob matches the base name of the path or
\* the whole path; build/ matches build and build/output, not src/builder, and
\* *.log matches error.log, not error.log.txt.
C14_GitignoreSemantics ==
    /\ GitignoreExamples
    /\ (mResult # << >> /\ ~PlainLine(mPattern)) =>
          mResult[1] =
              IF mPattern[Len(mPattern)] = "/" THEN AnchorMatches(mPattern, mPath)
              ELSE GlobMatches(mPattern, BaseName(mPath)) \/ GlobMatches(mPattern, mPath)

\* *.log was tried on src/error.log and matched by the base name
C14_Witness ==
    /\ mPattern = <<"*", ".", "l", "o", "g">>
    /\ mPath = <<"s", "r", "c", "/", "e", "r", "r", "o", "r", ".", "l", "o", "g">>
    /\ mResult = <<TRUE>>

\* the line occurs in the path, character by character, at some position
IsSubstring(line, path) ==
    \E i \in 1..(Len(path) - Len(line) + 1) :
        \A k \in 1..Len(line) : path[i + k - 1] = line[k]

\* build on src/build, env on home/environment-data
PlainExamples ==
    /\ matchesGitignorePattern(<<"b", "u", "i", "l", "d">>, <<"s", "r", "c", "/", "b", "u", "i", "l", "d">>)
    /\ matchesGitignorePattern(<<"e", "n", "v">>, <<"h", "o", "m", "e", "/", "e", "n", "v", "i", "r", "o", "n", "m", "e", "n", "t", "-", "d", "a", "t", "a">>)

\* C28: a line with no trailing '/' and no '*' matches a relative path iff the
\* line is a substring of the path; build matches src/build and env matches
\* home/environment-data.
C28_PlainLineIsSubstring ==
    /\ PlainExamples
    /\ (mResult # << >> /\ PlainLine(mPattern)) => mResult[1] = IsSubstring(mPattern, mPath)

\* env was tried on home/environment-data and matched
C28_Witness ==
    /\ mPattern = <<"e", "n", "v">>
    /\ mPath = <<"h", "o", "m", "e", "/", "e", "n", "v", "i", "r", "o", "n", "m", "e", "n", "t", "-", "d", "a", "t", "a">>
    /\ mResult = <<TRUE>>

(***************************************************************************)
(* Properties of getDirectorySize (SizeSpec).                              *)
(***************************************************************************)
\* the regular files of the tree
TreeFiles ==
    {[file |-> <<N_errorlog>>, size |-> 7],
     [file |-> <<N_build, N_maino>>, size |-> 100],
     [file |-> <<N_build, N_dist, N_appjs>>, size |-> 50],
     [file |-> <<N_src, N_cache, N_liba>>, size |-> 30],
     [file |-> <<N_src, N_target, N_maino>>, size |-> 100]}

RECURSIVE SumOfFiles(_)
SumOfFiles(fs) ==
    IF fs = {} THEN 0
    ELSE LET f == CHOOSE x \in fs : TRUE IN f.size + SumOfFiles(fs \ {f})

\* every directory from path down to the one that holds the file can be listed
Listable(path, file) ==
    \A k \in Len(path)..(Len(file) - 1) : SubSeq(file, 1, k) \notin unreadable

StartedFiles ==
    {WalkDirFiles(szPath)[i] : i \in 1..(Len(WalkDirFiles(szPath)) - Len(szTodo))}

\* C29: the goroutines of a call that hold a slot of limit, the ones that can
\* be in their stat, never number more than the capacity of limit; the call
\* returns only in a state where the callback has been called on every file
\* and every goroutine it started has given its slot back and called Done.
C29_BoundedStatTasks ==
    /\ [](Cardinality(szLive) <= szLimit)
    /\ [](szLive \cup szExit \subseteq StartedFiles)
    /\ [][Len(szReturned') > Len(szReturned)
            => /\ szTodo = << >>
               /\ szLive = {}
               /\ szExit = {}]_vars

\* every slot of a limit of two is taken, one goroutine is about to call Done,
\* and the walk has files left
C29_Witness ==
    /\ szLimit = 2
    /\ Cardinality(szLive) = 2
    /\ szExit # {}
    /\ szTodo # << >>

(***************************************************************************)
(* Properties of the inventory and of the commands of the user (Spec).     *)
(***************************************************************************)
\* the messages that drive a cleanup run
RunMessages ==
    Pending("startCleaningProcess") \cup Pending("cleanSingleItem")
        \cup Pending("cleanCompleteMsg")

\* C22: while the state is Scanning the inventory is empty and nothing is
\* being deleted; the state leaves Scanning only by the scan-complete message,
\* whose step puts the whole result of the scan in the inventory and makes the
\* state Selecting; toggle and start-cleaning received while Scanning change
\* neither the inventory nor the disk and start no run.
C22_ScanningInventory ==
    /\ [](state = "stateScanning"
            => /\ items = << >>
               /\ ~cleaning
               /\ cleanedSize = 0
               /\ disk = AllDirs
               /\ RunMessages = {}
               /\ Pending("cleanProgressMsg") = {})
    /\ [][(state = "stateScanning" /\ (items' # items \/ state' # state))
            => /\ lastOp' = "scanCompleteMsg"
               /\ state' = "stateSelecting"
               /\ {items'[i] : i \in 1..Len(items')} = BuiltinItems
               /\ Len(items') = Cardinality(BuiltinItems)]_vars
    /\ [][(state = "stateScanning" /\ lastOp' \in {"toggle", "clean"})
            => UNCHANGED <<state, items, cleaning, cleanedSize, disk, inflight>>]_vars

\* the user pressed the clean key while the scan was running
C22_Witness ==
    /\ state = "stateScanning"
    /\ lastOp = "clean"
    /\ Pending("scanForCleanableItems") # {}

\* C24: there is one message driving a cleanup run in flight while cleaning
\* is set and none otherwise, so at most one run is in progress; the clean key
\* pressed while cleaning is set takes no snapshot, starts nothing and leaves
\* the inventory, the disk and the cleaned size as they are.
C24_OneRunAtATime ==
    /\ [](BagCardinality([msg \in RunMessages |-> CopiesIn(msg, inflight)])
            = IF cleaning THEN 1 ELSE 0)
    /\ [][(cleaning /\ lastOp' = "clean")
            => UNCHANGED <<items, cleanedSize, disk, inflight, cleaning, runs,
                           startItems, startCleaned, startDisk, processed>>]_vars

\* the user pressed the clean key between two items of a run
C24_Witness ==
    /\ cleaning
    /\ lastOp = "clean"
    /\ processed # << >>
    /\ Pending("cleanSingleItem") # {}
    /\ ~NothingSelected(items)

\* the paths of the inventory, in its order
PathSeq(its) == [i \in 1..Len(its) |-> its[i].Path]

\* s without its i-th element
Without(s, i) == SubSeq(s, 1, i - 1) \o SubSeq(s, i + 1, Len(s))

RECURSIVE SumOfSizes(_)
SumOfSizes(S) ==
    IF S = {} THEN 0
    ELSE LET it == CHOOSE x \in S : TRUE IN it.Size + SumOfSizes(S \ {it})

\* the Items that leave the inventory in a step
LeavingItems == {it \in {items[i] : i \in 1..Len(items)} : it.Path \notin Paths(items')}

\* a step leaves the paths of the inventory and their order alone, or it is
\* the step of a run in which os.RemoveAll of one Item's path returned nil, and
\* that Item alone leaves the inventory
ShrinksByDeletion ==
    [][state = "stateSelecting"
         => \/ PathSeq(items') = PathSeq(items)
            \/ /\ lastOp' = "cleanSingleItem"
               /\ cleaning
               /\ Len(processed') = Len(processed) + 1
               /\ processed'[Len(processed')].ok
               /\ processed'[Len(processed')].path \notin disk'
               /\ \E i \in 1..Len(items) :
                    /\ items[i].Path = processed'[Len(processed')].path
                    /\ items[i].Selected
                    /\ PathSeq(items') = Without(PathSeq(items), i)]_vars

\* C25: once the scan is complete no step adds an Item to the inventory or
\* reorders it; an Item leaves it only in the step of a cleanup run that
\* deleted the Item's own path; the cleaned size is the sum of the sizes of
\* the Items that have left the inventory: nothing before the scan completes,
\* and every step adds to it the sizes of the Items that leave in that step.
C25_InventoryOnlyShrinks ==
    /\ ShrinksByDeletion
    /\ [](state = "stateScanning" => cleanedSize = 0)
    /\ [][cleanedSize' = cleanedSize + SumOfSizes(LeavingItems)]_vars

\* a run has deleted one Item and failed to delete another
C25_Witness ==
    /\ \E k \in 1..Len(processed) : processed[k].ok
    /\ \E k \in 1..Len(processed) : ~processed[k].ok
    /\ Len(items) < Len(startItems)
    /\ cleanedSize > 0

\* the fields of an Item other than its selected flag
SameButSelected(a, b) ==
    /\ a.Path = b.Path
    /\ a.Type = b.Type
    /\ a.Size = b.Size
    /\ a.Info = b.Info

\* the toggle key with the cursor on an item inverts the flag of that item
\* when no run is in progress, and touches nothing else
ToggleFrame ==
    [][\A cursor \in 0..Len(items) :
         KeyToggle(cursor)
             => /\ Len(items') = Len(items)
                /\ \A i \in 1..Len(items) :
                     /\ SameButSelected(items'[i], items[i])
                     /\ i # cursor => items'[i].Selected = items[i].Selected
                /\ (cursor # 0 /\ ~cleaning)
                     => items'[cursor].Selected = ~items[cursor].Selected
                /\ (cursor # 0 /\ cleaning) => items' = items
                /\ UNCHANGED <<cleanedSize, disk, state, cleaning, inflight>>]_vars

\* an Item of the inventory keeps the size it entered with
SizesKept ==
    [][state = "stateSelecting"
         => \A i \in 1..Len(items') :
              \E j \in 1..Len(items) : SameButSelected(items'[i], items[j])]_vars

\* C26: a toggle command inverts the selected flag of the Item under the
\* cursor and changes nothing else: not the path, category or size of any
\* Item, not the flag of another Item, not the order, not the cleaned size;
\* and no step after the scan changes the size of an Item.
C26_ToggleFrame ==
    /\ ToggleFrame
    /\ SizesKept

\* after a run that deleted something, the user toggled one of several items
\* that are left, some selected and some not
C26_Witness ==
    /\ lastOp = "toggle"
    /\ ~cleaning
    /\ cleanedSize > 0
    /\ \E i, j \in 1..Len(items) : items[i].Selected /\ ~items[j].Selected

\* C27: once the quit key has been accepted (tea.Quit returned, or the program
\* ended) nothing is deleted any more: the disk and the inventory stay as they
\* were at that moment.
C27_NoDeletionAfterQuit ==
    [][(Pending("tea.Quit") # {} \/ quitted) => UNCHANGED <<disk, items, cleanedSize>>]_vars

\* the regular files that are no longer on disk: their directory is gone
RemovedFiles == {f \in TreeFiles : SubSeq(f.file, 1, Len(f.file) - 1) \notin disk}

\* C30: the cleaned size is never more than the sizes of the regular files the
\* runs removed from disk add up to, and processing an item whose path is gone
\* already leaves the cleaned size as it is.
C30_CleanedWithinRemoved ==
    /\ [](cleanedSize <= SumOfFiles(RemovedFiles))
    /\ [][(/\ Len(processed') = Len(processed) + 1
           /\ processed'[Len(processed')].path \notin disk)
            => cleanedSize' = cleanedSize]_vars

\* C31: the state is stateScanning or stateSelecting in every reachable
\* state, never stateCleaning or stateComplete; while cleaning is set the state
\* is stateSelecting, the clean key that starts a run leaves the state as it
\* is, and the completion message of a run leaves the state stateSelecting
\* with cleaning false.
C31_TwoStatesOnly ==
    /\ [](state \in {"stateScanning", "stateSelecting"})
    /\ [](cleaning => state = "stateSelecting")
    /\ [][(~cleaning /\ cleaning') => (lastOp' = "clean" /\ state' = state)]_vars
    /\ [][lastOp' = "cleanCompleteMsg" => (state' = "stateSelecting" /\ ~cleaning')]_vars

\* a run that deleted something has just completed
C31_Witness ==
    /\ lastOp = "cleanCompleteMsg"
    /\ state = "stateSelecting"
    /\ ~cleaning
    /\ runs > 0
    /\ processed # << >>

(***************************************************************************)
(* Properties of the builtin classification (ClassSpec).                   *)
(***************************************************************************)
\* the entries of the table a base name satisfies: an entry without '*' that
\* is the name, or an entry "*" + suffix whose suffix ends the name
EntriesFor(name) ==
    {p \in patterns :
        IF \A i \in 1..Len(p.pat) : p.pat[i] # "*"
        THEN p.pat = name
        ELSE /\ p.pat[1] = "*"
             /\ Len(name) >= Len(p.pat) - 1
             /\ \A i \in 2..Len(p.pat) : name[Len(name) - Len(p.pat) + i] = p.pat[i]}

\* C21: a directory becomes an Item iff the last name of its path is an entry
\* of the table without '*', or ends as an entry with '*' says; the rest of the
\* path has no part in it; the Item's category is that of the entry, the same
\* whichever entry the iteration reaches first.
C21_ClassifiedByBaseName ==
    cResult # << >> =>
        LET m == EntriesFor(cPath[Len(cPath)])
        IN  /\ (m = {}) = (cResult = <<"">>)
            /\ \A p \in m : cResult = <<p.desc>>

\* a.tmp/error.log is an Item of the category of *.log, not of *.tmp
C21_Witness ==
    /\ cPath = <<<<"a", ".", "t", "m", "p">>, <<"e", "r", "r", "o", "r", ".", "l", "o", "g">>>>
    /\ cResult = <<"Log files">>

(***************************************************************************)
(* Properties of the scan (WalkSpec).                                      *)
(***************************************************************************)
IsBelow(d, e) == IsPrefixPath(d, e) /\ d # e

\* directories below the root that are neither named .git nor under one
OutsideGit == {d \in AllDirs \ {<< >>} : \A k \in 1..Len(d) : d[k] # N_git}

\* C2: in builtin mode no directory inside an Item of the scan's inventory is an
\* Item itself, and the walker has neither listed nor sent any directory inside
\* an Item.
C2_Pruning ==
    (scanDone /\ ~useGitignore) =>
        \A d \in Paths(scanItems) : \A e \in AllDirs :
            IsBelow(d, e) => (e \notin Paths(scanItems) /\ emits[e] = 0 /\ lists[e] = 0)

\* C3 as stated: every directory below the root outside .git is sent once and
\* listed once by the time the walk ends, and never more than once.
C3_EachDirectoryOnce ==
    /\ DOMAIN emits = AllDirs =>
         \A d \in OutsideGit : emits[d] <= 1 /\ lists[d] <= 1
    /\ closed => \A d \in OutsideGit : emits[d] = 1 /\ lists[d] = 1

\* C3, amended: every directory below the root outside .git whose ancestors can
\* all be listed is sent once and listed once by the time the walk ends; no
\* directory is sent or listed more than once.
C3_EachReachableDirectoryOnce ==
    /\ \A d \in DOMAIN emits : emits[d] <= 1 /\ lists[d] <= 1
    /\ closed => \A d \in Walked : emits[d] = 1 /\ lists[d] = 1

\* a walk by several workers has ended on a tree with an unreadable directory
C3_Witness ==
    /\ closed
    /\ maxWorkers > 1
    /\ <<N_src>> \in unreadable
    /\ emits[<<N_build, N_dist>>] = 1
    /\ emits[<<N_src, N_target>>] = 0

\* C4: the inventory of a scan holds at most one Item per path.
C4_OneItemPerPath ==
    \A i, j \in 1..Len(scanItems) : scanItems[i].Path = scanItems[j].Path => i = j

\* a gitignore scan has ended in which two lines match the path build
C4_Witness ==
    /\ scanDone
    /\ useGitignore
    /\ Len(SelectSeq(GitPatterns(gitignore),
                     LAMBDA pat : matchesGitignorePattern(pat, Join(<<N_build>>)))) > 1
    /\ <<N_build>> \in Paths(scanItems)

\* a line that is empty once trimmed, a comment or a negation
ExcludedLine(line) ==
    LET t == TrimSpace(line)
    IN  t = << >> \/ t[1] = "#" \/ t[1] = "!"

WithoutExcludedLines(lines) == SelectSeq(lines, LAMBDA l : ~ExcludedLine(l))

\* the inventory of a gitignore scan run with the lines of file: each directory
\* sent by the walker that a pattern matches, with the category of its item
GitInventoryOf(file) ==
    {[path |-> d,
      type |-> <<"Gitignore pattern: ">> \o FirstMatch(GitPatterns(file), Join(d))[1]] :
        d \in {e \in Walked : FirstMatch(GitPatterns(file), Join(e)) # << >>}}

\* C15: in a gitignore scan the category of every Item names a line of the
\* file that is not empty once trimmed, not a comment and not a negation, and
\* the inventory is the one the scan yields on the file without those lines.
C15_ExcludedLinesIgnored ==
    useGitignore =>
        /\ \A i \in 1..Len(scanItems) :
              \E k \in 1..Len(gitignore) :
                 /\ ~ExcludedLine(gitignore[k])
                 /\ scanItems[i].Type = <<"Gitignore pattern: ">> \o TrimSpace(gitignore[k])
        /\ scanDone =>
              {[path |-> scanItems[i].Path, type |-> scanItems[i].Type] :
                   i \in 1..Len(scanItems)}
                 = GitInventoryOf(WithoutExcludedLines(gitignore))

\* a scan has ended on a file with an empty line, a comment and the negation
\* !src, with Items under src and for dist
C15_Witness ==
    /\ scanDone
    /\ useGitignore
    /\ \E k \in 1..Len(gitignore) : TrimSpace(gitignore[k]) = << >>
    /\ \E k \in 1..Len(gitignore) : HasPrefix(gitignore[k], <<"#">>)
    /\ \E k \in 1..Len(gitignore) : HasPrefix(gitignore[k], <<"!">>)
    /\ {<<N_src>>, <<N_build, N_dist>>} \subseteq Paths(scanItems)

\* directories named .git, and what is beneath them
InsideGit == {d \in AllDirs : \E k \in 1..Len(d) : d[k] = N_git}

\* C16 as stated: nothing named .git or beneath it is sent or listed; every
\* other directory below the root, dot-prefixed ones included, is sent and
\* listed by the end of the walk.
C16_OnlyGitExcluded ==
    /\ \A d \in InsideGit \cap DOMAIN emits : emits[d] = 0 /\ lists[d] = 0
    /\ closed => \A d \in (AllDirs \ {<< >>}) \ InsideGit : emits[d] >= 1 /\ lists[d] >= 1

\* C16, amended: nothing named .git or beneath it is sent or listed; every
\* other directory below the root, dot-prefixed ones included, whose ancestors
\* can all be listed is sent and has os.ReadDir called on it by the end of the
\* walk; nothing below a directory that cannot be listed is sent.
C16_OnlyGitAndUnlistedExcluded ==
    /\ \A d \in InsideGit \cap DOMAIN emits : emits[d] = 0 /\ lists[d] = 0
    /\ \A d \in DOMAIN emits : emits[d] >= 1 => d \in Walked
    /\ closed => \A d \in (AllDirs \ {<< >>}) \ InsideGit :
                    IF \A k \in 0..(Len(d) - 1) : SubSeq(d, 1, k) \notin unreadable
                    THEN emits[d] >= 1 /\ lists[d] >= 1
                    ELSE emits[d] = 0 /\ lists[d] = 0

\* the walk has ended: src/.cache was sent and listed, .git/build was not
C16_Witness ==
    /\ closed
    /\ emits[<<N_src, N_cache>>] = 1
    /\ lists[<<N_src, N_cache>>] = 1
    /\ emits[<<N_git, N_build>>] = 0
    /\ <<N_build>> \in unreadable

\* C17: out is closed only when the work list is empty and every worker has
\* returned, and with a consumer that keeps receiving it is closed in the end.
C17_ClosedWhenIdle ==
    /\ [](closed => (work = << >> /\ \A w \in Workers : wpc[w] = "done"))
    /\ <>closed

\* out was closed after a worker had waited for room in the buffer
C17_Witness ==
    /\ closed
    /\ maxWorkers = 1
    /\ \A d \in Walked : emits[d] = 1
    /\ Cardinality(Walked) > 2 * maxWorkers

\* C18: out never holds more than 2W entries; a worker whose send finds the
\* buffer full stays at the send, with the directory it is sending neither on
\* the work list nor listed.
C18_Backpressure ==
    /\ [](Len(out) <= 2 * maxWorkers)
    /\ [](\A w \in DOMAIN wpc :
            wpc[w] = "send" => (/\ \A k \in 1..Len(work) : work[k] # wpath[w]
                                /\ lists[wpath[w]] = 0))
    /\ [][\A w \in DOMAIN wpc :
            (wpc[w] = "send" /\ Len(out) = 2 * maxWorkers)
                => (wpc'[w] = "send" /\ wpath'[w] = wpath[w] /\ wents'[w] = wents[w])]_vars

\* the buffer is full and a worker waits to send
C18_Witness ==
    /\ Len(out) = 2 * maxWorkers
    /\ maxWorkers > 1
    /\ \E w \in DOMAIN wpc : wpc[w] = "send"

\* walker workers that have not returned, and classification goroutines
LiveTasks ==
    Cardinality({w \in DOMAIN wpc : wpc[w] # "done"}) + BagCardinality(tasks)

\* C19: in a builtin scan the live scanner tasks (workers and classification
\* goroutines) number at most the W workers and one goroutine for each of the
\* 2W entries out can hold, whatever the number of directories.
C19_TasksBoundedByWorkers ==
    ~useGitignore => LiveTasks <= 3 * maxWorkers

\* C23: a worker has returned only if the walk is finished: the work list is
\* empty and no other worker holds a directory whose listing may add work.
C23_WorkersStopWhenWalkFinished ==
    \A w \in Workers :
        wpc[w] = "done"
            => /\ work = << >>
               /\ \A v \in Workers : wpc[v] \in {"take", "done"}

\* the inventory of a builtin scan is an ordering of BuiltinItems
ScanYieldsBuiltinItems ==
    (scanDone /\ ~useGitignore) => scanItems \in Orderings(BuiltinItems)

====
